---- MODULE Spec2Model ----
(***************************************************************************)
(* Stack-copying multi-shot continuations (call/cc) of src/main.rs.        *)
(*                                                                         *)
(* The machine is one thread with a native stack, modelled as the sequence *)
(* of its frames (stk[1] is the frame at the stack origin), each frame     *)
(* with its size in bytes, and a heap holding the continuation records     *)
(* (recs), the resumption slot CONT_VAL, the static RET and the boxed      *)
(* counter.  Variables whose name starts with h_ are history variables:    *)
(* they record what happened and are never read by the program.            *)
(***************************************************************************)
EXTENDS Integers, Sequences, FiniteSets, TLC

(***************************************************************************)
(* Bounds of the model.                                                    *)
(***************************************************************************)
MaxRecs    == 2      \* captures per run
MaxInv     == 2      \* call_cont calls made by the generic client per run
StackLimit == 5300   \* bytes of native stack available to the thread
AddrBits   == 16     \* width of usize in the model
SzMain     == 64     \* frame sizes, in bytes
SzBig      == 3000
SzProc     == 48
SzCallCC   == 64
SzMC       == 96
SzCallCont == 24
SzRC       == 24
SzPadSmall == 8      \* restore_cont_jump's frame is the buffer plus padding
SzPadLarge == 24

(***************************************************************************)
(* Constants of the program.                                               *)
(***************************************************************************)
BufLen     == 1000   \* let _unused_buf: [u8; 1000]
Margin     == 1024   \* (*k).csize as usize + 1024
DemoFirst  == 100    \* call_cont(k, 100u32)
DemoBase   == 100    \* 100 + call_cc::<u32>(...)
DemoMax    == 3      \* if *count < 3

UsizeMod    == 2 ^ AddrBits
StackOrigin == UsizeMod \div 2
Types       == {"u32", "str"}
Dirs        == {"down", "up"}
PadSizes    == {SzPadSmall, SzPadLarge}
MainSizes   == {SzMain, SzBig}

VARIABLES
    stk,        \* the native stack: sequence of frames, origin first
    recs,       \* heap: the Cont records, in allocation order
    CONT_VAL,   \* the thread-local resumption slot
    RET,        \* static mut RET (0 is the null pointer)
    count,      \* the GC-allocated counter *count of main
    out,        \* the numbers printed so far
    status,     \* "running", "done", or the fatal error that ended the run
    dir,        \* direction in which the hardware stack grows
    g,          \* size of one restore_cont_jump frame
    h_hist,     \* per record: payloads invoked, values returned, counters
    h_landing,  \* record whose saved context the last longjmp entered
    h_recur,    \* recursive calls made by the running restore trampoline
    h_slot,     \* log of the slot's writes ("w") and read-and-clears ("r")
    h_ninv      \* number of call_cont calls made by the client

vars == <<stk, recs, CONT_VAL, RET, count, out, status, dir, g,
          h_hist, h_landing, h_recur, h_slot, h_ninv>>

hvars == <<h_hist, h_landing, h_recur, h_slot, h_ninv>>

(***************************************************************************)
(* Values.  Box<dyn Any> carries the TypeId of the boxed value.            *)
(***************************************************************************)
None == [ty |-> "none", v |-> 0]

BoxNew(ty, v) == [ty |-> ty, v |-> v]

Payloads == {BoxNew(ty, v) : ty \in Types, v \in 1 .. MaxRecs + MaxInv}

\* Box<dyn Any>::downcast::<T>(): Ok(value) when the TypeId is T's
\* (DowncastUnchecked, like every definition placed right before the one it
\* resembles, is a faulty variant: the properties must tell the two apart)
DowncastUnchecked(b, T) == [ok |-> TRUE, v |-> b.v]
Downcast(b, T) == IF b.ty = T THEN [ok |-> TRUE, v |-> b.v]
                              ELSE [ok |-> FALSE, v |-> 0]

(***************************************************************************)
(* Frames and addresses.                                                   *)
(***************************************************************************)
Frame(fn, pc, size, k, T, val, proc) ==
    [fn |-> fn, pc |-> pc, size |-> size, k |-> k, T |-> T, val |-> val,
     proc |-> proc, loc |-> 0]

RECURSIVE Depth(_)
Depth(s) == IF s = <<>> THEN 0 ELSE s[1].size + Depth(Tail(s))

Top == stk[Len(stk)]

\* the frames below the top one
Below == SubSeq(stk, 1, Len(stk) - 1)

\* address of the end of the stack s that is away from the origin
SpOf(s) == IF dir = "down" THEN StackOrigin - Depth(s) ELSE StackOrigin + Depth(s)

approximate_stack_pointer == SpOf(stk)

stack_origin == StackOrigin

\* lowest address and one past the highest address of frame i of stack s
FrameLo(s, i) == IF dir = "down" THEN StackOrigin - Depth(SubSeq(s, 1, i))
                                 ELSE StackOrigin + Depth(SubSeq(s, 1, i - 1))
FrameHi(s, i) == FrameLo(s, i) + s[i].size


\* frame i of s lies entirely inside / entirely outside the n bytes at lo
Within(s, i, lo, n)   == FrameLo(s, i) >= lo /\ FrameHi(s, i) <= lo + n
Disjoint(s, i, lo, n) == FrameHi(s, i) <= lo \/ FrameLo(s, i) >= lo + n

\* result of calling a function whose frame is f on top of the stack base
Pushed(base, f) ==
    IF Depth(base) + f.size <= StackLimit
    THEN [stk |-> Append(base, f), status |-> "running"]
    ELSE [stk |-> base, status |-> "stack_overflow"]

\* the stack after the top frame returned val to its caller
Returned(val) == [Below EXCEPT ![Len(Below)].val = val]

(***************************************************************************)
(* stack_size(): (bounds.origin as usize) - (approximate_stack_pointer()   *)
(* as usize).  The subtraction is unsigned: a build with overflow checks   *)
(* panics when it underflows, a build without them wraps.                  *)
(***************************************************************************)
stack_size ==
    IF stack_origin >= approximate_stack_pointer
    THEN {[panic |-> FALSE, v |-> stack_origin - approximate_stack_pointer]}
    ELSE {[panic |-> TRUE, v |-> 0],
          [panic |-> FALSE,
           v |-> (stack_origin - approximate_stack_pointer) % UsizeMod]}

(***************************************************************************)
(* make_continuation, lines 64-89: the window and the copy of the stack.   *)
(***************************************************************************)
WindowDownOnly(addr, start_stack) ==
    [csize |-> (start_stack - addr) % UsizeMod, cstart |-> addr, cend |-> start_stack]
Window(addr, start_stack) ==
    IF addr < start_stack
    THEN [csize |-> start_stack - addr, cstart |-> addr, cend |-> start_stack]
    ELSE [csize |-> addr - start_stack, cstart |-> start_stack, cend |-> addr]

\* GC_malloc(n): a zeroed buffer of n bytes
GC_malloc(n) == [len |-> n, frames |-> <<>>]

RECURSIVE FramesWithin(_, _, _, _)
FramesWithin(s, i, lo, n) ==
    IF i > Len(s) THEN <<>>
    ELSE (IF Within(s, i, lo, n) THEN <<s[i]>> ELSE <<>>)
         \o FramesWithin(s, i + 1, lo, n)

RECURSIVE FramesDisjoint(_, _, _, _)
FramesDisjoint(s, i, lo, n) ==
    IF i > Len(s) THEN <<>>
    ELSE (IF Disjoint(s, i, lo, n) THEN <<s[i]>> ELSE <<>>)
         \o FramesDisjoint(s, i + 1, lo, n)

\* libc::memcpy(buf, lo, n): the n bytes of the live stack s at lo, into buf
CopyOutNoLocals(buf, s, lo, n) ==
    LET fs == FramesWithin(s, 1, lo, n)
    IN  [buf EXCEPT !.frames = [i \in 1 .. Len(fs) |-> [fs[i] EXCEPT !.loc = 0]]]
CopyOut(buf, s, lo, n) == [buf EXCEPT !.frames = FramesWithin(s, 1, lo, n)]

\* libc::memcpy(lo, buf, n): the live stack s with its n bytes at lo replaced
CopyInNothing(s, lo, buf, n) == s
CopyIn(s, lo, buf, n) ==
    (IF n = buf.len THEN buf.frames ELSE <<>>) \o FramesDisjoint(s, 1, lo, n)

\* line 86: (*cont).fresh = true, written into zeroed memory
FreshUnset == FALSE
FreshAtCapture == TRUE

\* the record built by lines 64-91 when the stack is s and the new record is cont
Capture(s, cont) ==
    LET addr == SpOf(s)
        w    == Window(addr, stack_origin)
    IN  [csize  |-> w.csize,
         cstart |-> w.cstart,
         cend   |-> w.cend,
         fresh  |-> FreshAtCapture,
         cstack |-> CopyOut(GC_malloc(w.csize), s, w.cstart, w.csize),
         state  |-> [sp |-> addr, pc |-> "landed"]]

\* longjmp(&state, 1) on memory mem: the frames that are live at the saved
\* stack pointer, the top one continuing at the saved program counter
LongjmpReturns(mem, state) == SubSeq(stk, 1, Len(stk) - 1)
Longjmp(mem, state) ==
    LET S == {i \in 1 .. Len(mem) : SpOf(SubSeq(mem, 1, i)) = state.sp}
    IN  IF S = {} THEN <<>>
        ELSE LET n == CHOOSE i \in S : TRUE
             IN  [SubSeq(mem, 1, n) EXCEPT ![n].pc = state.pc]

\* the history of a record that has just been captured with the stack s:
\* the live stack and the record as they were then, and nothing else yet
NewHist(s, r) == [invs |-> <<>>, rets |-> <<>>, normal |-> 0, procs |-> 0, jumps |-> 0,
                  stack |-> s, rec |-> r]

(***************************************************************************)
(* make_continuation                                                       *)
(***************************************************************************)
\* lines 64-93: capture, setjmp returns 0, Ok(cont) goes to call_cc
MakeContinuation ==
    /\ status = "running"
    /\ Top.fn = "make_continuation" /\ Top.pc = "entry"
    /\ LET cont == Len(recs) + 1
           s    == [stk EXCEPT ![Len(stk)].k = cont]
       IN  /\ recs' = Append(recs, Capture(s, cont))
           /\ h_hist' = Append(h_hist, NewHist(s, Capture(s, cont)))
           /\ stk' = [Below EXCEPT ![Len(Below)].k = cont,
                                   ![Len(Below)].pc = "got_ok"]
    /\ UNCHANGED <<CONT_VAL, RET, count, out, status, dir, g,
                   h_landing, h_recur, h_slot, h_ninv>>

\* Cell::replace(new) on a cell holding cur: the old content is handed out
CellReplacePeek(cur, new) == [old |-> cur, cell |-> cur]
CellReplaceLost(cur, new) == [old |-> new, cell |-> new]
CellReplace(cur, new) == [old |-> cur, cell |-> new]

\* lines 94-98: setjmp returned 1; the slot is taken and Err(val) goes to call_cc
MakeContinuationLanded ==
    /\ status = "running"
    /\ Top.fn = "make_continuation" /\ Top.pc = "landed"
    /\ LET r == CellReplace(CONT_VAL, None)
       IN  /\ CONT_VAL' = r.cell
           /\ h_slot' = Append(h_slot, "r")
           /\ IF r.old = None
              THEN /\ status' = "panic_unwrap"
                   /\ UNCHANGED stk
              ELSE /\ stk' = [Below EXCEPT ![Len(Below)].val = r.old,
                                           ![Len(Below)].pc = "got_err"]
                   /\ UNCHANGED status
    /\ UNCHANGED <<recs, RET, count, out, dir, g, h_hist, h_landing, h_recur, h_ninv>>

(***************************************************************************)
(* restore_cont_jump, lines 110-124                                        *)
(***************************************************************************)
\* the frame of one call of restore_cont_jump(k): line 111 reserves the buffer
JumpFrameNoBuf(k) ==
    Frame("restore_cont_jump", "entry", g - BufLen, k, "none", None, "none")
JumpFrame(k) == Frame("restore_cont_jump", "entry", g, k, "none", None, "none")

\* line 115: the stack is not yet deep enough for the record's window
MustGrowNoMargin(cur, csize) == cur <= csize
MustGrowStrict(cur, csize) == cur < csize + Margin
MustGrowHalfMargin(cur, csize) == cur <= csize + Margin \div 2
MustGrow(cur, csize) == cur <= csize + Margin

\* line 118: (*k).fresh = false
MarkInvokedForgotten(r) == r
MarkInvokedReleased(r) == [r EXCEPT !.fresh = FALSE, !.cstack.len = 0]
MarkInvoked(r) == [r EXCEPT !.fresh = FALSE]

\* lines 118-121: fresh = false, the window is overwritten, longjmp
Jump(k) ==
    LET r   == recs[k]
        mem == CopyIn(stk, r.cstart, r.cstack, r.csize)
        s   == Longjmp(mem, r.state)
    IN  /\ recs' = [recs EXCEPT ![k] = MarkInvoked(r)]
        /\ h_landing' = k
        /\ h_hist' = [h_hist EXCEPT ![k].jumps = @ + 1]
        /\ \/ /\ s # <<>>
              /\ stk' = s
              /\ UNCHANGED status
           \/ /\ s = <<>> \/ ~Disjoint(stk, Len(stk), r.cstart, r.csize)
              /\ status' = "stack_smashed"
              /\ UNCHANGED stk
        /\ UNCHANGED h_recur

RestoreContJump ==
    /\ status = "running"
    /\ Top.fn = "restore_cont_jump"
    /\ \E cur \in stack_size :
          IF cur.panic
          THEN /\ status' = "panic_subtract"
               /\ UNCHANGED <<stk, recs, h_hist, h_landing, h_recur>>
          ELSE IF MustGrow(cur.v, recs[Top.k].csize)
          THEN LET r == Pushed(stk, JumpFrame(Top.k))
               IN  /\ stk' = r.stk
                   /\ status' = r.status
                   /\ h_recur' = h_recur + 1
                   /\ UNCHANGED <<recs, h_hist, h_landing>>
          ELSE Jump(Top.k)
    /\ UNCHANGED <<CONT_VAL, RET, count, out, dir, g, h_slot, h_ninv>>

(***************************************************************************)
(* restore_continuation and call_cont, lines 131-143                       *)
(***************************************************************************)
\* Cell::set(new) on a cell holding cur: the content of the cell afterwards
CellSetKeep(cur, new) == cur
CellSet(cur, new) == new

\* line 132 and the call of line 133
RestoreContinuation ==
    /\ status = "running"
    /\ Top.fn = "restore_continuation"
    /\ CONT_VAL' = CellSet(CONT_VAL, BoxNew(Top.val.ty, Top.val.v))
    /\ h_slot' = Append(h_slot, "w")
    /\ h_hist' = [h_hist EXCEPT ![Top.k].invs = Append(@, Top.val)]
    /\ h_recur' = 0
    /\ LET r == Pushed(stk, JumpFrame(Top.k))
       IN  stk' = r.stk /\ status' = r.status
    /\ UNCHANGED <<recs, RET, count, out, dir, g, h_landing, h_ninv>>

\* line 142
CallCont ==
    /\ status = "running"
    /\ Top.fn = "call_cont"
    /\ LET r == Pushed(stk, Frame("restore_continuation", "entry", SzRC,
                                  Top.k, "none", Top.val, "none"))
       IN  stk' = r.stk /\ status' = r.status
    /\ UNCHANGED <<recs, CONT_VAL, RET, count, out, dir, g, hvars>>

(***************************************************************************)
(* call_cc, lines 153-167                                                  *)
(***************************************************************************)
Procs == {"proc_small", "proc_big"}

\* size of the frame of a procedure passed to call_cc
ProcSize(p) == IF p = "proc_big" THEN SzBig ELSE SzProc

\* line 154: let k = make_continuation()
CallCc ==
    /\ status = "running"
    /\ Top.fn = "call_cc" /\ Top.pc = "entry"
    /\ LET r == Pushed([stk EXCEPT ![Len(stk)].pc = "wait_mc"],
                       Frame("make_continuation", "entry", SzMC, 0, "none", None, "none"))
       IN  stk' = r.stk /\ status' = r.status
    /\ UNCHANGED <<recs, CONT_VAL, RET, count, out, dir, g, hvars>>

\* line 158: if (*k).fresh
IsFreshInverted(r) == ~r.fresh
IsFresh(r) == r.fresh

\* lines 157-163: Ok(k); proc(k) when k is fresh, restore_cont_jump(k) otherwise
CallCcOk ==
    /\ status = "running"
    /\ Top.fn = "call_cc" /\ Top.pc = "got_ok"
    /\ IF IsFresh(recs[Top.k])
       THEN LET r == Pushed([stk EXCEPT ![Len(stk)].pc = "in_proc"],
                            Frame(Top.proc, "run", ProcSize(Top.proc), Top.k,
                                  Top.T, None, "none"))
            IN  /\ stk' = r.stk /\ status' = r.status
                /\ h_hist' = [h_hist EXCEPT ![Top.k].procs = @ + 1]
                /\ UNCHANGED h_recur
       ELSE LET r == Pushed(stk, JumpFrame(Top.k))
            IN  /\ stk' = r.stk /\ status' = r.status
                /\ h_recur' = 0
                /\ UNCHANGED h_hist
    /\ UNCHANGED <<recs, CONT_VAL, RET, count, out, dir, g, h_landing, h_slot, h_ninv>>

\* line 159: proc returned, its result is the result of call_cc
CallCcProcReturned ==
    /\ status = "running"
    /\ Top.fn = "call_cc" /\ Top.pc = "proc_ret"
    /\ stk' = Returned(Top.val)
    /\ h_hist' = [h_hist EXCEPT ![Top.k].normal = @ + 1]
    /\ UNCHANGED <<recs, CONT_VAL, RET, count, out, status, dir, g,
                   h_landing, h_recur, h_slot, h_ninv>>

\* line 165: Err(val) => *val.downcast().unwrap()
CallCcErr ==
    /\ status = "running"
    /\ Top.fn = "call_cc" /\ Top.pc = "got_err"
    /\ LET d == Downcast(Top.val, Top.T)
       IN  IF d.ok
           THEN /\ stk' = Returned([ty |-> Top.T, v |-> d.v])
                /\ h_hist' = [h_hist EXCEPT ![h_landing].rets =
                                               Append(@, [ty |-> Top.T, v |-> d.v])]
                /\ UNCHANGED status
           ELSE /\ status' = "panic_downcast"
                /\ UNCHANGED <<stk, h_hist>>
    /\ UNCHANGED <<recs, CONT_VAL, RET, count, out, dir, g,
                   h_landing, h_recur, h_slot, h_ninv>>

(***************************************************************************)
(* main, lines 171-188                                                     *)
(***************************************************************************)
\* lines 175-177: the counter is allocated (zeroed) and call_cc is called
MainStart ==
    /\ status = "running"
    /\ Top.fn = "main" /\ Top.pc = "start"
    /\ count' = 0
    /\ LET r == Pushed([stk EXCEPT ![Len(stk)].pc = "print"],
                       Frame("call_cc", "entry", SzCallCC, 0, "u32", None, "closure"))
       IN  stk' = r.stk /\ status' = r.status
    /\ UNCHANGED <<recs, CONT_VAL, RET, out, dir, g, hvars>>

\* lines 178-179: the closure keeps k in RET and resumes it with 100u32
MainClosure ==
    /\ status = "running"
    /\ Top.fn = "closure" /\ Top.pc = "run"
    /\ RET' = Top.k
    /\ LET r == Pushed(stk, Frame("call_cont", "entry", SzCallCont, Top.k, "none",
                                  BoxNew("u32", DemoFirst), "none"))
       IN  stk' = r.stk /\ status' = r.status
    /\ UNCHANGED <<recs, CONT_VAL, count, out, dir, g, hvars>>

\* line 177: println!("{}", 100 + <result of call_cc>)
MainPrint ==
    /\ status = "running"
    /\ Top.fn = "main" /\ Top.pc = "print"
    /\ out' = Append(out, DemoBase + Top.val.v)
    /\ stk' = [stk EXCEPT ![Len(stk)].pc = "test"]
    /\ UNCHANGED <<recs, CONT_VAL, RET, count, status, dir, g, hvars>>

\* line 182: *count < 3
CountAtMostMax(c) == c <= DemoMax
CountBelowMax(c) == c < DemoMax

\* lines 182-186: if *count < 3 { *count += 1; call_cont::<u32>(RET, *count) }
MainLoop ==
    /\ status = "running"
    /\ Top.fn = "main" /\ Top.pc = "test"
    /\ IF CountBelowMax(count)
       THEN /\ count' = count + 1
            /\ LET r == Pushed([stk EXCEPT ![Len(stk)].pc = "end"],
                               Frame("call_cont", "entry", SzCallCont, RET, "none",
                                     BoxNew("u32", count + 1), "none"))
               IN  stk' = r.stk /\ status' = r.status
       ELSE /\ status' = "done"
            /\ UNCHANGED <<stk, count>>
    /\ UNCHANGED <<recs, CONT_VAL, RET, out, dir, g, hvars>>

(***************************************************************************)
(* A client of the API: code that may call call_cc with any procedure,     *)
(* call call_cont on any record captured so far with a payload of any      *)
(* type, and return.  Before each call it increments a heap cell (count)   *)
(* and a local variable of its frame (loc); the payload it passes, and the *)
(* value a procedure returns, is the heap cell's value, so every call_cont *)
(* carries a payload no earlier call carried.                              *)
(***************************************************************************)
UserRunning ==
    /\ status = "running"
    /\ Top.fn \in {"main"} \cup Procs
    /\ Top.pc = "run"

UserCallCc ==
    /\ UserRunning
    /\ Len(recs) < MaxRecs
    /\ count' = count + 1
    /\ \E T \in Types, p \in Procs :
          LET r == Pushed([stk EXCEPT ![Len(stk)].loc = @ + 1],
                          Frame("call_cc", "entry", SzCallCC, 0, T, None, p))
          IN  stk' = r.stk /\ status' = r.status
    /\ UNCHANGED <<recs, CONT_VAL, RET, out, dir, g, hvars>>

UserCallCont ==
    /\ UserRunning
    /\ h_ninv < MaxInv
    /\ count' = count + 1
    /\ \E k \in 1 .. Len(recs), ty \in Types :
          LET r == Pushed([stk EXCEPT ![Len(stk)].loc = @ + 1],
                          Frame("call_cont", "entry", SzCallCont, k, "none",
                                BoxNew(ty, count + 1), "none"))
          IN  stk' = r.stk /\ status' = r.status
    /\ h_ninv' = h_ninv + 1
    /\ UNCHANGED <<recs, CONT_VAL, RET, out, dir, g,
                   h_hist, h_landing, h_recur, h_slot>>

UserReturn ==
    /\ UserRunning
    /\ IF Len(stk) = 1
       THEN /\ status' = "done"
            /\ UNCHANGED stk
       ELSE /\ stk' = [Below EXCEPT ![Len(Below)].val = [ty |-> Top.T, v |-> count],
                                    ![Len(Below)].pc = "proc_ret"]
            /\ UNCHANGED status
    /\ UNCHANGED <<recs, CONT_VAL, RET, count, out, dir, g, hvars>>

(***************************************************************************)
(* Specifications                                                          *)
(***************************************************************************)
InitHeap ==
    /\ recs = <<>>
    /\ CONT_VAL = None
    /\ RET = 0
    /\ count = 0
    /\ out = <<>>
    /\ status = "running"
    /\ g \in {BufLen + p : p \in PadSizes}
    /\ h_hist = <<>>
    /\ h_landing = 0
    /\ h_recur = 0
    /\ h_slot = <<>>
    /\ h_ninv = 0

MainFrame(pc, size) == Frame("main", pc, size, 0, "none", None, "none")

\* a client of the API on a stack that grows towards lower addresses
Init ==
    /\ InitHeap
    /\ dir = "down"
    /\ stk = <<MainFrame("run", SzMain)>>

\* the same, on a stack of either direction
InitBoth ==
    /\ InitHeap
    /\ dir \in Dirs
    /\ stk = <<MainFrame("run", SzMain)>>

\* the program of main.rs
InitDemo ==
    /\ InitHeap
    /\ dir = "down"
    /\ \E size \in MainSizes : stk = <<MainFrame("start", size)>>

Next ==
    \/ MakeContinuation
    \/ MakeContinuationLanded
    \/ RestoreContJump
    \/ RestoreContinuation
    \/ CallCont
    \/ CallCc
    \/ CallCcOk
    \/ CallCcProcReturned
    \/ CallCcErr
    \/ UserCallCc
    \/ UserCallCont
    \/ UserReturn

NextDemo ==
    \/ MakeContinuation
    \/ MakeContinuationLanded
    \/ RestoreContJump
    \/ RestoreContinuation
    \/ CallCont
    \/ CallCc
    \/ CallCcOk
    \/ CallCcErr
    \/ MainStart
    \/ MainClosure
    \/ MainPrint
    \/ MainLoop

Spec == Init /\ [][Next]_vars

SpecBoth == InitBoth /\ [][Next]_vars

SpecDemo == InitDemo /\ [][NextDemo]_vars

SpecDemoFair == InitDemo /\ [][NextDemo]_vars /\ WF_vars(NextDemo)

(***************************************************************************)
(* Properties                                                              *)
(***************************************************************************)
UserFns == {"main", "closure"} \cup Procs

\* user code is running: the procedure, or the code around a call_cc
AtRest == status \in {"running", "done"} /\ Top.fn \in UserFns

Last(s) == s[Len(s)]

Min(a, b) == IF a < b THEN a ELSE b
Max(a, b) == IF a < b THEN b ELSE a
CeilDiv(a, b) == (a + b - 1) \div b

\* the stack as record k captured it, and the call_cc frame in it (the site)
Captured(k) == recs[k].cstack.frames
SiteFrame(k) == Captured(k)[Len(Captured(k)) - 1]
SiteType(k) == SiteFrame(k).T

\* the run ended, if at all, normally, on a mistyped payload or out of stack
Benign == status \in {"running", "done", "panic_downcast", "stack_overflow"}

\* C1: the i-th invocation of a record makes the call_cc that captured it
\* return the i-th payload: the value arrives at the captured site, on the
\* captured stack, and the values returned so far are the payloads invoked so
\* far, in order, whatever the number of invocations and the invoking site.
C1_ResumeReturnsPayload ==
    /\ status \notin {"panic_unwrap", "stack_smashed"}
    /\ \A k \in 1 .. Len(recs) :
          /\ Len(h_hist[k].rets) <= Len(h_hist[k].invs)
          /\ \A i \in 1 .. Len(h_hist[k].rets) : h_hist[k].rets[i] = h_hist[k].invs[i]
    /\ (status = "running" /\ Top.fn = "call_cc" /\ Top.pc = "got_err") =>
          /\ Below = SubSeq(Captured(h_landing), 1, Len(Captured(h_landing)) - 2)
          /\ [Top EXCEPT !.val = None, !.pc = "wait_mc"] = SiteFrame(h_landing)
          /\ Top.val = Last(h_hist[h_landing].invs)

\* a record resumed twice, with two different payloads, both returned
C1_Witness ==
    /\ AtRest
    /\ \E k \in 1 .. Len(recs) :
          /\ Len(h_hist[k].rets) = 2
          /\ h_hist[k].rets[1].v # h_hist[k].rets[2].v

\* C2 as stated: the returns of a call_cc are one for the normal return of
\* proc, if it returned, plus one per invocation of the record.
C2_OneNormalReturn ==
    AtRest =>
       \A k \in 1 .. Len(recs) :
          h_hist[k].normal + Len(h_hist[k].rets) =
             (IF h_hist[k].normal > 0 THEN 1 ELSE 0) + Len(h_hist[k].invs)

\* C2: a record can be invoked any number of times; every invocation yields
\* exactly one more return of the call_cc that captured the record (unless the
\* payload is mistyped or the stack is exhausted, which end the run), so the
\* returns of that call_cc are the normal returns of proc plus the invocations.
C2_ReturnsPerInvocation ==
    /\ Benign
    /\ \A k \in 1 .. Len(recs) :
          /\ Len(h_hist[k].invs) <= Len(h_hist[k].rets) + 1
          /\ h_hist[k].jumps <= Len(h_hist[k].invs)
          /\ AtRest => /\ Len(h_hist[k].rets) = Len(h_hist[k].invs)
                       /\ h_hist[k].jumps = Len(h_hist[k].invs)
    /\ status = "panic_downcast" => Last(h_hist[h_landing].invs).ty # SiteType(h_landing)

\* a record whose call_cc had returned normally was invoked twice and returned
\* twice more, the second time with the record no longer fresh
C2_Witness ==
    /\ AtRest
    /\ \E k \in 1 .. Len(recs) :
          /\ ~recs[k].fresh
          /\ h_hist[k].normal = 1
          /\ Len(h_hist[k].rets) = 2

DemoOut == <<DemoBase + DemoFirst, DemoBase + 1, DemoBase + 2, DemoBase + 3>>
DemoInvs == <<BoxNew("u32", DemoFirst), BoxNew("u32", 1), BoxNew("u32", 2),
              BoxNew("u32", 3)>>

IsPrefix(s, t) == Len(s) <= Len(t) /\ s = SubSeq(t, 1, Len(s))

DemoSafe ==
    /\ status \in {"running", "done"}
    /\ IsPrefix(out, DemoOut)
    /\ Len(recs) <= 1
    /\ recs # <<>> => IsPrefix(h_hist[1].invs, DemoInvs)
    /\ status = "done" => /\ out = DemoOut
                          /\ h_hist[1].invs = DemoInvs
                          /\ count = DemoMax

C4_SelfResume ==
    /\ status \in {"running", "done"}
    /\ ~(Top.fn = "call_cc" /\ Top.pc = "proc_ret")
    /\ recs # <<>> =>
          /\ h_hist[1].normal = 0
          /\ h_hist[1].rets # <<>> => h_hist[1].rets[1] = BoxNew("u32", DemoFirst)
    /\ (Top.fn = "main" /\ Top.pc = "print" /\ out = <<>>) =>
          /\ Top.val = BoxNew("u32", DemoFirst)
          /\ h_hist[1].jumps = 1
    /\ out # <<>> => out[1] = DemoBase + DemoFirst

C4_Witness == out = <<DemoBase + DemoFirst>> /\ h_hist[1].normal = 0

\* C5: a payload whose type is not the type T of the call_cc it lands in ends
\* the run in the downcast of that call_cc and is never returned; a payload
\* of type T is returned as it is.
C5_TypeMismatchFatal ==
    /\ \A k \in 1 .. Len(recs) :
          /\ \A i \in 1 .. Len(h_hist[k].rets) :
                /\ h_hist[k].rets[i].ty = SiteType(k)
                /\ h_hist[k].rets[i] = h_hist[k].invs[i]
          /\ AtRest => \A i \in 1 .. Len(h_hist[k].invs) :
                          h_hist[k].invs[i].ty = SiteType(k)
    /\ status = "panic_downcast" =>
          /\ Top.fn = "call_cc" /\ Top.pc = "got_err"
          /\ Top.val.ty # Top.T
          /\ Top.val = Last(h_hist[h_landing].invs)
          /\ Len(h_hist[h_landing].rets) = Len(h_hist[h_landing].invs) - 1

C5_Witness == status = "panic_downcast" /\ Top.val.ty = "str" /\ Top.T = "u32"

C6_Inv ==
    /\ \A k \in 1 .. Len(recs) :
          /\ h_hist[k].procs <= 1
          /\ h_hist[k].normal > 0 => h_hist[k].procs = 1
    /\ \A i \in 1 .. Len(stk) :
          stk[i].fn \in Procs =>
             /\ i = Len(Captured(stk[i].k))
             /\ stk[i - 1].fn = "call_cc" /\ stk[i - 1].pc = "in_proc"
             /\ stk[i - 1].k = stk[i].k
             /\ h_hist[stk[i].k].procs = 1

C6_Step ==
    /\ (status = "running" /\ Top.fn = "call_cc" /\ Top.pc = "got_ok") =>
          \/ status' = "stack_overflow"
          \/ /\ stk'[Len(stk')].fn = Top.proc
             /\ stk'[Len(stk')].k = Top.k
             /\ Top.k = Len(recs)
             /\ h_hist[Top.k].procs = 0 /\ h_hist'[Top.k].procs = 1
    /\ (status = "running" /\ Top.fn = "call_cc" /\ Top.pc = "proc_ret") =>
          /\ Len(stk') = Len(stk) - 1
          /\ stk'[Len(stk')].val = Top.val
    /\ (status = "running" /\ Top.fn = "call_cc" /\ Top.pc = "got_err") =>
          /\ Len(stk') <= Len(stk)
          /\ \A k \in 1 .. Len(recs) : h_hist'[k].procs = h_hist[k].procs

\* C6: an execution of call_cc that is not a landing calls proc exactly once,
\* with the record it has just captured, and returns what proc returns; a
\* resumed return of call_cc does not call proc.
C6_ProcOnce == []C6_Inv /\ [][C6_Step]_vars

\* proc was called once, returned normally, and its call_cc was resumed since
C6_Witness ==
    /\ AtRest
    /\ \E k \in 1 .. Len(recs) :
          /\ h_hist[k].procs = 1
          /\ h_hist[k].normal = 1
          /\ Len(h_hist[k].rets) >= 1

\* C7: a restore of a record with window size N makes at most
\* ceil((N + 1024) / g) recursive calls, g being the size of one frame of
\* restore_cont_jump, and then jumps; it runs out of stack only when
\* N + 1024 + g exceeds the stack budget.
C7_TrampolineBound ==
    /\ Top.fn = "restore_cont_jump" =>
          /\ h_recur <= CeilDiv(recs[Top.k].csize + Margin, g)
          /\ status \in {"running", "stack_overflow"}
          /\ status = "stack_overflow" => recs[Top.k].csize + Margin + g > StackLimit
    /\ (Top.fn = "make_continuation" /\ Top.pc = "landed") =>
          h_recur <= CeilDiv(recs[h_landing].csize + Margin, g)

\* a restore that needed at least three recursive calls has jumped
C7_Witness ==
    /\ Top.fn = "make_continuation" /\ Top.pc = "landed"
    /\ h_recur >= 3

\* C8: whichever way the stack grows, a record's window is
\* [min(sp, origin), max(sp, origin)), csize is its length, and the buffer
\* has csize bytes, all of them copied from the stack.
C8_Window ==
    \A k \in 1 .. Len(recs) :
       /\ recs[k].cstart = Min(recs[k].state.sp, StackOrigin)
       /\ recs[k].cend = Max(recs[k].state.sp, StackOrigin)
       /\ recs[k].csize = recs[k].cend - recs[k].cstart
       /\ recs[k].csize >= 0
       /\ recs[k].cstack.len = recs[k].csize
       /\ Depth(recs[k].cstack.frames) = recs[k].csize

\* a capture deeper than a big frame, with the stack pointer above the origin
C8_Witness ==
    /\ dir = "up"
    /\ \E k \in 1 .. Len(recs) : recs[k].state.sp > StackOrigin /\ recs[k].csize > SzBig

\* C9: a record is fresh exactly as long as no restore of it has reached the
\* overwrite; from the first one on it is not fresh, whatever follows.
C9_FreshFlag ==
    \A k \in 1 .. Len(recs) :
       /\ recs[k].fresh <=> h_hist[k].jumps = 0
       /\ h_hist[k].rets # <<>> => ~recs[k].fresh

\* a record restored twice, with another record captured in the same run
C9_Witness ==
    /\ Len(recs) = 2
    /\ \E k \in 1 .. Len(recs) : h_hist[k].jumps = 2 /\ ~recs[k].fresh

\* C10: CONT_VAL holds at most one payload; its writes and read-and-clears
\* alternate, a write first; no write finds it occupied; it is empty while
\* user code runs.
C10_SlotAlternates ==
    /\ CONT_VAL = None \/ CONT_VAL \in Payloads
    /\ \A i \in 1 .. Len(h_slot) : h_slot[i] = IF i % 2 = 1 THEN "w" ELSE "r"
    /\ CONT_VAL # None <=> Len(h_slot) % 2 = 1
    /\ AtRest => CONT_VAL = None
    /\ Top.fn \in {"call_cont", "restore_continuation"} => CONT_VAL = None

\* two write/read rounds are over and user code runs again
C10_Witness == AtRest /\ Len(h_slot) = 4 /\ CONT_VAL = None

\* the functions declared to return `!`
Diverging == {"call_cont", "restore_continuation", "restore_cont_jump"}

\* a frame of a diverging function is the top frame or waits for one it called
C11_Inv ==
    \A i \in 1 .. Len(stk) :
       stk[i].fn \in Diverging =>
          /\ stk[i].pc = "entry"
          /\ i < Len(stk) =>
                /\ stk[i + 1].k = stk[i].k
                /\ stk[i + 1].fn = IF stk[i].fn = "call_cont"
                                   THEN "restore_continuation"
                                   ELSE "restore_cont_jump"

\* a step of a diverging function calls on (the caller's frames stay below),
\* or leaves by the jump into a saved context, or ends the run
C11_Step ==
    (status = "running" /\ Top.fn \in Diverging) =>
       \/ status' # "running"
       \/ /\ Len(stk') = Len(stk) + 1
          /\ SubSeq(stk', 1, Len(stk)) = stk
          /\ stk'[Len(stk')].fn \in Diverging \ {"call_cont"}
       \/ /\ stk'[Len(stk')].fn = "make_continuation"
          /\ stk'[Len(stk')].pc = "landed"
          /\ h_hist'[Top.k].jumps = h_hist[Top.k].jumps + 1

\* C11: call_cont, restore_continuation and restore_cont_jump never return
\* to their caller: each of their steps calls further, jumps into a saved
\* context or ends the run on stack exhaustion, and no frame of theirs is
\* ever continued after the call it made.
C11_NeverReturns == []C11_Inv /\ [][C11_Step]_vars

\* the second call_cont of a run has jumped after recursing, and the frames of
\* call_cont and of its callees are gone
C11_Witness ==
    /\ status = "running"
    /\ Top.fn = "make_continuation" /\ Top.pc = "landed"
    /\ h_ninv = 2 /\ h_recur >= 1
    /\ \A i \in 1 .. Len(stk) : stk[i].fn \notin Diverging

\* the consumption the top frame measures: origin - sp on a downward stack
Consumption == stack_origin - approximate_stack_pointer

\* what the top frame, a call of restore_cont_jump, compares it against
Threshold == recs[Top.k].csize + Margin

InTrampoline == status = "running" /\ Top.fn = "restore_cont_jump"

\* the step was the recursive call of line 116 (which may exhaust the stack)
Recursed ==
    /\ recs' = recs
    /\ h_hist' = h_hist
    /\ \/ status' = "running" /\ stk' = Append(stk, JumpFrame(Top.k))
       \/ status' = "stack_overflow" /\ stk' = stk

\* the step was the overwrite and the jump of lines 118-121
Jumped ==
    /\ h_hist'[Top.k].jumps = h_hist[Top.k].jumps + 1
    /\ ~recs'[Top.k].fresh
    /\ h_landing' = Top.k
    /\ stk'[Len(stk')].fn = "make_continuation"

\* C12 as stated: recursion exactly when the consumption is less than
\* csize + 1024, the jump when it is greater or equal.
C12_RecursesBelow ==
    [][InTrampoline => /\ Consumption < Threshold => Recursed
                       /\ Consumption >= Threshold => Jumped]_vars

\* C12: a call of restore_cont_jump recurses exactly when the consumption is
\* at most csize + 1024 (equality included), and overwrites and jumps exactly
\* when the consumption is greater than csize + 1024.
C12_RecursesAtMost ==
    [][InTrampoline => /\ Consumption <= Threshold => Recursed /\ ~Jumped
                       /\ Consumption > Threshold => Jumped /\ ~Recursed]_vars

\* a call that measured exactly csize + 1024 has made the recursive call
C12_Witness ==
    /\ InTrampoline
    /\ stk[Len(stk) - 1].fn = "restore_cont_jump"
    /\ Depth(Below) = Threshold

\* the step copied the buffer of the top frame's record over its window
Overwrote == h_hist'[Top.k].jumps = h_hist[Top.k].jumps + 1

C13_Step ==
    (InTrampoline /\ Overwrote) =>
       /\ Consumption >= Threshold
       /\ Disjoint(stk, Len(stk), recs[Top.k].cstart, recs[Top.k].csize)
       /\ FrameHi(stk, Len(stk)) <= recs[Top.k].cstart
       /\ status' = "running"

AbsDiff(a, b) == Max(a, b) - Min(a, b)

\* C14 as stated: whichever way the stack grows, the consumption that a call
\* of restore_cont_jump compares against csize + 1024 is |origin - sp|,
\* computed without underflow, as the capture computes csize.
C14_AbsoluteDistance ==
    InTrampoline =>
       \A cur \in stack_size :
          /\ ~cur.panic
          /\ cur.v = AbsDiff(stack_origin, approximate_stack_pointer)
          /\ cur.v = Window(approximate_stack_pointer, stack_origin).csize

\* a jump has just landed: make_continuation continues after its setjmp
Landed == status = "running" /\ Top.fn = "make_continuation" /\ Top.pc = "landed"

\* the live stack with the program counter of its running frame set to pc
\* (the program counter is a register: the jump buffer holds it, not the stack)
AtPc(s, pc) == [s EXCEPT ![Len(s)].pc = pc]

\* C15: when a restore of record k has landed, the live stack in the window
\* [cstart, cend) is what it was when k was captured, frame for frame and
\* local for local, whatever ran, returned, was written or was restored in
\* between.
C15_RoundTrip ==
    /\ status # "stack_smashed"
    /\ Landed =>
          /\ AtPc(stk, "entry") = h_hist[h_landing].stack
          /\ FramesWithin(stk, 1, recs[h_landing].cstart, recs[h_landing].csize) = stk
          /\ Depth(stk) = recs[h_landing].csize
          /\ approximate_stack_pointer = h_hist[h_landing].rec.state.sp

\* the first record lands after the second one was restored, and after the
\* frame that called call_cc had changed its local
C15_Witness ==
    /\ Landed
    /\ Len(recs) = 2
    /\ h_landing = 1
    /\ h_hist[1].jumps = 1 /\ h_hist[2].jumps = 1
    /\ stk[Len(stk) - 2].loc < count

\* record r with its fresh flag set to b
WithFresh(r, b) == [r EXCEPT !.fresh = b]

\* every record is the record its capture built, but for fresh
C16_Inv ==
    /\ Len(h_hist) = Len(recs)
    /\ \A k \in 1 .. Len(recs) :
          /\ recs[k] = WithFresh(h_hist[k].rec, recs[k].fresh)
          /\ recs[k].cstack.len = recs[k].csize
          /\ h_hist[k].rec.fresh

\* a step keeps every record there is, changes no field of it but fresh, and
\* changes fresh only from true to false
C16_Step ==
    /\ Len(recs') >= Len(recs)
    /\ \A k \in 1 .. Len(recs) :
          /\ recs'[k] = WithFresh(recs[k], recs'[k].fresh)
          /\ recs'[k].fresh => recs[k].fresh

\* C16: after its capture a record keeps its cstart, cend, csize, saved
\* state and the length and contents of its buffer through every operation
\* (restores of it and of other records, other captures, invocations with
\* any payload); the only field that changes is fresh.
C16_RecordImmutable == []C16_Inv /\ [][C16_Step]_vars

\* the first record has been restored and is no longer fresh, the second one
\* was captured later and is untouched, and user code runs
C16_Witness ==
    /\ AtRest
    /\ Len(recs) = 2
    /\ recs[1] # h_hist[1].rec /\ h_hist[1].jumps >= 1
    /\ recs[2] = h_hist[2].rec /\ Len(h_hist[2].invs) = 0

\* the frame of the user code that called the call_cc whose capture is on top
CallerOfCapture == stk[Len(stk) - 2]

C17_Inv ==
    Landed =>
       /\ count = Last(h_hist[h_landing].invs).v
       /\ count = h_ninv + Len(recs)
       /\ \A i \in 1 .. Len(stk) : stk[i].loc = h_hist[h_landing].stack[i].loc
       /\ CallerOfCapture.loc >= 1
       /\ CallerOfCapture.loc < count

\* only user code writes the counter
C17_Step == ~UserRunning => count' = count

\* C17: a restore leaves the heap alone and rewinds the stack.  When a
\* resumption has landed, the heap counter has the value it had when the
\* continuation was invoked (the client passes that value as the payload), so
\* it counts every increment made so far (one per call_cc and per call_cont
\* of the client), while every local in the window has its capture-time
\* value again, however often it was incremented since.
C17_HeapSurvives == []C17_Inv /\ [][C17_Step]_vars

\* the second resumption of a record has landed: the caller's local is back
\* at 1 for the second time, the counter has gone on to 3 or more
C17_Witness ==
    /\ Landed
    /\ h_hist[h_landing].jumps = 2
    /\ CallerOfCapture.loc = 1
    /\ count >= 3

\* C18: every landing in make_continuation finds the resumption slot
\* occupied, by the payload of the invocation that led to it, so the unwrap of
\* line 96 never fails: the restore trampoline only ever runs, and so only
\* ever jumps, after a write of the slot that has not been read yet.
C18_SlotOccupied ==
    /\ status # "panic_unwrap"
    /\ (InTrampoline \/ Landed) =>
          /\ CONT_VAL # None
          /\ h_slot # <<>> /\ Last(h_slot) = "w"
    /\ Landed => CONT_VAL = Last(h_hist[h_landing].invs)

\* the second landing of a run, its payload still in the slot
C18_Witness ==
    /\ Landed
    /\ Len(h_slot) = 3
    /\ CONT_VAL \in Payloads

\* call_cc has received Ok(k) from make_continuation and is about to test fresh
GotOk == status = "running" /\ Top.fn = "call_cc" /\ Top.pc = "got_ok"

C19_Inv ==
    /\ GotOk =>
          /\ recs[Top.k].fresh
          /\ Top.k = Len(recs)
          /\ h_hist[Top.k].jumps = 0 /\ h_hist[Top.k].procs = 0
    /\ \A i \in 1 .. Len(stk) :
          stk[i].fn = "restore_cont_jump" =>
             stk[i - 1].fn \in {"restore_continuation", "restore_cont_jump"}

C19_Step ==
    GotOk => \/ status' = "stack_overflow"
             \/ /\ stk'[Len(stk')].fn = Top.proc
                /\ CONT_VAL' = CONT_VAL

\* C19: whenever make_continuation hands Ok(k) to call_cc, k is the record
\* just captured and is fresh, so call_cc calls proc; the branch of line 161,
\* restore_cont_jump(k) with no write of the slot, is never taken, and every
\* chain of restore_cont_jump frames starts from restore_continuation.
C19_OkIsFresh == []C19_Inv /\ [][C19_Step]_vars

\* Ok(k) arrives for a second record after the first one was restored
C19_Witness ==
    /\ GotOk
    /\ Top.k = 2
    /\ ~recs[1].fresh /\ Len(h_hist[1].rets) >= 1

====
